---- MODULE Spec2Model ----
(***************************************************************************)
(* SimpleCross: an in-memory limit-order matching engine.                  *)
(* The model follows the complete implementation (the translation unit     *)
(* with Fill records, _cancelOrder and _validateOrderId).  One action of   *)
(* the model is one call of SimpleCross::action(line) in main's loop.      *)
(***************************************************************************)
EXTENDS Integers, Sequences, FiniteSets, TLC

\* ------------------------------------------------------------------------
\* Bounds of the model
MaxActions == 3      \* number of input lines fed to the engine
MaxOid     == 3      \* order identifiers are drawn from 1..MaxOid
MaxQty     == 2      \* QTY fields are drawn from 1..MaxQty
MaxPx      == 2      \* PX fields are drawn from 1..MaxPx (whole units)

\* typedef uint16_t Quantity
QuantityModulus == 65536

Oids   == 1..MaxOid
Qtys   == 1..MaxQty
Prices == 1..MaxPx

\* enum Side { BUY = 'B', SELL = 'S' }
BUY  == "B"
SELL == "S"
Side == {BUY, SELL}

\* std::map<Symbol, Sides> iterates its keys in lexicographic order
SymbolOrder == <<"IBM", "MSFT">>

VARIABLES
  orderBook,   \* SimpleCross::orderBook : symbol -> [bids, asks], each price -> queue
  orderCache,  \* SimpleCross::orderCache: oid -> Order
  running,     \* TRUE while main's loop runs, FALSE once the process was terminated
  out,         \* the lines the last action wrote to standard output
  results,     \* the results_t the last call of action returned to main
  last,        \* the last input line, as parsed by action
  matches,     \* history: the crossing events of the last action
  accepted,    \* history: the identifiers some place accepted (did not reject)
  cancelled,   \* history: the identifiers some cancel acknowledged with X
  origQty,     \* history: oid -> quantity accepted under that identifier
  fillQty,     \* history: oid -> sum of the quantities of its F lines
  cxlQty,      \* history: oid -> open quantity taken off the book by its cancels
  arrival,     \* history: oid -> number of the input line that accepted it
  sameAsPrev,  \* history: the last input line equals the one before it
  inputs,      \* the alphabet the driver draws input fields from
  cursor,      \* the line of inputs.script the driver has come to
  strayed,     \* lines of the script left out + unreadable lines put in
  issued,      \* number of distinct identifiers the input has used so far
  nActions     \* number of input lines processed

vars == <<orderBook, orderCache, running, out, results, last, matches, accepted,
          cancelled, origQty, fillQty, cxlQty, arrival, sameAsPrev,
          inputs, cursor, strayed, issued, nActions>>

\* ------------------------------------------------------------------------
\* Helpers for std::map and the sequences
Min(a, b) == IF a < b THEN a ELSE b

MapErase(f, k) == [x \in (DOMAIN f) \ {k} |-> f[x]]

MapPut(f, k, v) == [x \in (DOMAIN f) \cup {k} |-> IF x = k THEN v ELSE f[x]]

\* faulty variant: the keys noted for removal are never erased
MapEraseNone(f, ks) == f

RECURSIVE MapEraseAll(_, _)
MapEraseAll(f, ks) ==
  IF ks = <<>> THEN f ELSE MapEraseAll(MapErase(f, Head(ks)), Tail(ks))

EmptyMap == [x \in {} |-> 0]

\* keys of a std::map<Price, ...> in iteration order (ascending)
RECURSIVE Ascending(_)
Ascending(S) ==
  IF S = {} THEN <<>>
  ELSE LET m == CHOOSE x \in S : \A y \in S : x <= y
       IN <<m>> \o Ascending(S \ {m})

\* the same keys through rbegin()..rend()
RECURSIVE Descending(_)
Descending(S) ==
  IF S = {} THEN <<>>
  ELSE LET m == CHOOSE x \in S : \A y \in S : x >= y
       IN <<m>> \o Descending(S \ {m})

RemoveAt(q, i) == SubSeq(q, 1, i - 1) \o SubSeq(q, i + 1, Len(q))

\* static_cast<Quantity>(std::stoi(field))
toQuantity(n) == n % QuantityModulus

\* std::to_string(double): "%f", six digits after the decimal point
toStringPx(px) == <<px, <<0, 0, 0, 0, 0, 0>>>>

\* struct Order
Order(oid, symbol, side, qty, px) ==
  [oid |-> oid, symbol |-> symbol, side |-> side, qty |-> qty, px |-> px]

\* ------------------------------------------------------------------------
\* Crossing (_fillBid / _fillAsk)

\* Quantity sharesExecuted = std::min(restingOrder.qty, order.qty)
sharesExecuted(restingQty, orderQty) == Min(restingQty, orderQty)

\* faulty variant: a buy at the ask price is not taken as marketable
bidMarketableStrict(orderPx, askPrice) == orderPx > askPrice

\* if (order.px >= askPrice)
bidMarketable(orderPx, askPrice) == orderPx >= askPrice

\* if (order.px <= bidPrice)
askMarketable(orderPx, bidPrice) == orderPx <= bidPrice

\* the Fill records one crossing event pushes onto fills
fillsOfMatch(order, restingOrder, shares) ==
  << [oid |-> restingOrder.oid, symbol |-> restingOrder.symbol,
      qty |-> shares, px |-> restingOrder.px] >>

\* for (int i=0; i < ordersToPop; i++) queue.pop_back()
popOrders(queue, ordersToPop) == SubSeq(queue, 1, Len(queue) - ordersToPop)

\* the working state of a fill: the price levels the loops work on, the
\* incoming order, the fills so far and the price levels to drop
startFill(levels, order) ==
  [levels |-> levels, order |-> order, fills |-> <<>>, matches |-> <<>>, drop |-> <<>>]

\* history: what the loop saw when it crossed the order at position i of level p
matchOf(w, p, i, shares) ==
  [aggressor |-> w.order.oid, resting |-> w.levels[p][i].oid,
   side |-> w.levels[p][i].side, px |-> p, pos |-> i, qty |-> shares,
   restingOpen |-> w.levels[p][i].qty, aggressorOpen |-> w.order.qty,
   aggressorPx |-> w.order.px, view |-> w.levels]

\* order.qty -= sharesExecuted; restingOrder.qty -= sharesExecuted; fills.push_back
crossOrder(w, p, i, shares) ==
  [w EXCEPT !.levels[p][i].qty = (@ - shares) % QuantityModulus,
            !.order.qty = (@ - shares) % QuantityModulus,
            !.fills = IF shares > 0
                      THEN @ \o fillsOfMatch(w.order, w.levels[p][i], shares)
                      ELSE @,
            !.matches = IF shares > 0 THEN Append(@, matchOf(w, p, i, shares)) ELSE @]

\* for (Order& restingOrder : queue) { ... } over the queue of price level p,
\* from position i on
RECURSIVE crossQueue(_, _, _, _)

\* if (restingOrder.qty == 0) ordersToPop++;  if (order.qty == 0) break;
crossNext(w, p, i, ordersToPop) ==
  IF w.order.qty = 0
  THEN [w |-> w,
        ordersToPop |-> IF w.levels[p][i].qty = 0 THEN ordersToPop + 1 ELSE ordersToPop]
  ELSE crossQueue(w, p, i + 1,
                  IF w.levels[p][i].qty = 0 THEN ordersToPop + 1 ELSE ordersToPop)

crossQueue(w, p, i, ordersToPop) ==
  IF i > Len(w.levels[p]) THEN [w |-> w, ordersToPop |-> ordersToPop]
  ELSE crossNext(crossOrder(w, p, i, sharesExecuted(w.levels[p][i].qty, w.order.qty)),
                 p, i, ordersToPop)

\* the end of one price level: pop the counted orders, note an empty queue
closeLevel(c, p) ==
  [c.w EXCEPT !.levels[p] = popOrders(@, c.ordersToPop),
              !.drop = IF popOrders(c.w.levels[p], c.ordersToPop) = <<>>
                       THEN Append(@, p) ELSE @]

\* one price level p of the walk
crossLevel(w, p) ==
  closeLevel(IF (IF w.order.side = BUY THEN bidMarketable(w.order.px, p)
                                       ELSE askMarketable(w.order.px, p))
             THEN crossQueue(w, p, 1, 0)
             ELSE [w |-> w, ordersToPop |-> 0], p)

\* the loop over the price levels pxs[k..], in the order the caller walks them
RECURSIVE walkLevels(_, _, _)

\* if (order.qty == 0) break;
walkNext(w, pxs, k) ==
  IF w.order.qty = 0 THEN w ELSE walkLevels(w, pxs, k + 1)

walkLevels(w, pxs, k) ==
  IF k > Len(pxs) THEN w ELSE walkNext(crossLevel(w, pxs[k]), pxs, k)

\* what a fill hands back: the book after it, the incoming order, the fills
filled(book, w) ==
  [book |-> book, order |-> w.order, fills |-> w.fills, matches |-> w.matches]

\* _fillBid, after its walk: the queues it worked on were copies, so only the
\* erase of pxLevelsToDrop reaches the book
endFillBid(book, order, w) ==
  filled([book EXCEPT ![order.symbol].asks = MapEraseAll(@, w.drop)], w)

\* _fillAsk, after its walk: the queues were changed in place
endFillAsk(book, order, w) ==
  filled([book EXCEPT ![order.symbol].bids = MapEraseAll(w.levels, w.drop)], w)

\* _fillBid: "for (std::pair<Price, OrderQueue> aPxLevel : askPxLevels)" walks
\* copies of the ask levels, lowest price first
fillBid(book, order) ==
  endFillBid(book, order,
             walkLevels(startFill(book[order.symbol].asks, order),
                        Ascending(DOMAIN book[order.symbol].asks), 1))

\* faulty variant: the bid levels are walked from begin(), lowest price first
fillAskFromBegin(book, order) ==
  endFillAsk(book, order,
             walkLevels(startFill(book[order.symbol].bids, order),
                        Ascending(DOMAIN book[order.symbol].bids), 1))

\* _fillAsk: walks the bid levels in place through a reverse iterator,
\* highest price first
fillAsk(book, order) ==
  endFillAsk(book, order,
             walkLevels(startFill(book[order.symbol].bids, order),
                        Descending(DOMAIN book[order.symbol].bids), 1))

fillOrder(book, order) ==
  IF order.side = BUY THEN fillBid(book, order) ELSE fillAsk(book, order)

\* ------------------------------------------------------------------------
\* Placement

\* faulty variant: the order is put at the front of the queue of its level
restOrderFront(pxLevels, order) ==
  IF order.px \notin DOMAIN pxLevels
  THEN MapPut(pxLevels, order.px, <<order>>)
  ELSE [pxLevels EXCEPT ![order.px] = <<order>> \o @]

\* new level, or pxLevels[order.px].emplace_back(order)
restOrder(pxLevels, order) ==
  IF order.px \notin DOMAIN pxLevels
  THEN MapPut(pxLevels, order.px, <<order>>)
  ELSE [pxLevels EXCEPT ![order.px] = Append(@, order)]

placeOrderNewSymbol(book, order) ==
  [book |-> MapPut(book, order.symbol,
                   [bids |-> IF order.side = BUY
                             THEN MapPut(EmptyMap, order.px, <<order>>) ELSE EmptyMap,
                    asks |-> IF order.side = SELL
                             THEN MapPut(EmptyMap, order.px, <<order>>) ELSE EmptyMap]),
   order |-> order, fills |-> <<>>, matches |-> <<>>]

\* if (order.qty != 0) { ... emplace_back(order) ... }
restRemainder(f) ==
  IF f.order.qty # 0
  THEN [f EXCEPT !.book = IF f.order.side = BUY
                          THEN [@ EXCEPT ![f.order.symbol].bids = restOrder(@, f.order)]
                          ELSE [@ EXCEPT ![f.order.symbol].asks = restOrder(@, f.order)]]
  ELSE f

placeOrderExistingSymbol(book, order) == restRemainder(fillOrder(book, order))

\* _validateOrderId throws std::invalid_argument when this is FALSE
validateOrderId(cache, orderId) == orderId \notin DOMAIN cache

\* if (order.qty != 0) orderCache.insert(...)
cacheOrder(cache, r) ==
  [r EXCEPT !.cache = IF r.order.qty # 0 /\ r.order.oid \notin DOMAIN cache
                      THEN MapPut(cache, r.order.oid, r.order) ELSE cache]

\* faulty variant: one book for all symbols, the order is crossed with and
\* rested in whatever book exists
placeOrderOneBook(book, cache, order) ==
  cacheOrder(cache,
             [cache |-> cache] @@
             (IF DOMAIN book = {}
              THEN placeOrderNewSymbol(book, order)
              ELSE placeOrderExistingSymbol(
                     book, [order EXCEPT !.symbol = CHOOSE sy \in DOMAIN book : TRUE])))

\* _placeOrder, for an identifier that passed _validateOrderId
placeOrder(book, cache, order) ==
  cacheOrder(cache,
             [cache |-> cache] @@
             (IF order.symbol \notin DOMAIN book
              THEN placeOrderNewSymbol(book, order)
              ELSE placeOrderExistingSymbol(book, order)))

\* _printFills
RECURSIVE printFills(_)
printFills(fills) ==
  IF fills = <<>> THEN <<>>
  ELSE << <<"F", Head(fills).oid, Head(fills).symbol, Head(fills).qty,
            toStringPx(Head(fills).px)>> >> \o printFills(Tail(fills))

\* ------------------------------------------------------------------------
\* Cancel

\* position of the first order of the queue with that identifier, 0 for end()
RECURSIVE findOrder(_, _, _)
findOrder(queue, oid, i) ==
  IF i > Len(queue) THEN 0
  ELSE IF queue[i].oid = oid THEN i
  ELSE findOrder(queue, oid, i + 1)

\* orderQueue.erase(it) with it == orderQueue.end() is undefined behaviour:
\* the build either terminates the process (the allocator rejects the pointer)
\* or goes on with the elements of the queue as they were.
EraseAtEnd == {"terminate", "unchanged"}

\* _cancelOrder.  status is "unknown" (orderCache.at threw, return false),
\* "cancelled" (return true) or "terminated".
cancelOrder(book, cache, oid, atEnd) ==
  IF oid \notin DOMAIN cache
  THEN [book |-> book, status |-> "unknown", qty |-> 0]
  ELSE
    LET order    == cache[oid]
        pxLevels == IF order.side = BUY THEN book[order.symbol].bids
                                        ELSE book[order.symbol].asks
        \* pxLevels[order.px] inserts an empty queue when the level is absent
        orderQueue == IF order.px \in DOMAIN pxLevels THEN pxLevels[order.px] ELSE <<>>
        it       == findOrder(orderQueue, oid, 1)
        erased   == IF it = 0 THEN orderQueue ELSE RemoveAt(orderQueue, it)
        levels2  == IF erased = <<>> THEN MapErase(pxLevels, order.px)
                                     ELSE MapPut(pxLevels, order.px, erased)
        book2    == IF order.side = BUY THEN [book EXCEPT ![order.symbol].bids = levels2]
                                        ELSE [book EXCEPT ![order.symbol].asks = levels2]
    IN IF it = 0 /\ atEnd = "terminate"
       THEN [book |-> book, status |-> "terminated", qty |-> 0]
       ELSE [book |-> book2, status |-> "cancelled",
             qty |-> IF it = 0 THEN 0 ELSE orderQueue[it].qty]

\* faulty variant: the two outcomes of a cancel are reported the wrong way round
printCancelSwapped(oid, wasCancelled) ==
  IF wasCancelled THEN << <<"E", oid, "Order ID not on book">> >>
  ELSE << <<"X", oid>> >>

\* _printCancel
printCancel(oid, wasCancelled) ==
  IF wasCancelled THEN << <<"X", oid>> >>
  ELSE << <<"E", oid, "Order ID not on book">> >>

\* ------------------------------------------------------------------------
\* Snapshot (_printSortedBook)

RECURSIVE printQueue(_, _, _, _)
printQueue(queue, symbol, side, price) ==
  IF queue = <<>> THEN <<>>
  ELSE << <<"P", Head(queue).oid, symbol, side, Head(queue).qty, toStringPx(price)>> >>
       \o printQueue(Tail(queue), symbol, side, price)

RECURSIVE printLevels(_, _, _, _)
printLevels(pxLevels, pxs, symbol, side) ==
  IF pxs = <<>> THEN <<>>
  ELSE printQueue(pxLevels[Head(pxs)], symbol, side, Head(pxs))
       \o printLevels(pxLevels, Tail(pxs), symbol, side)

\* faulty variant: the bids of a symbol are printed before its asks
RECURSIVE printSymbolsBidsFirst(_, _)
printSymbolsBidsFirst(book, symbols) ==
  IF symbols = <<>> THEN <<>>
  ELSE (IF Head(symbols) \in DOMAIN book
        THEN printLevels(book[Head(symbols)].bids,
                         Descending(DOMAIN book[Head(symbols)].bids),
                         Head(symbols), BUY)
             \o printLevels(book[Head(symbols)].asks,
                            Descending(DOMAIN book[Head(symbols)].asks),
                            Head(symbols), SELL)
        ELSE <<>>)
       \o printSymbolsBidsFirst(book, Tail(symbols))

RECURSIVE printSymbols(_, _)
printSymbols(book, symbols) ==
  IF symbols = <<>> THEN <<>>
  ELSE LET symbol == Head(symbols)
       IN (IF symbol \in DOMAIN book
           THEN printLevels(book[symbol].asks, Descending(DOMAIN book[symbol].asks),
                            symbol, SELL)
                \o printLevels(book[symbol].bids, Descending(DOMAIN book[symbol].bids),
                               symbol, BUY)
           ELSE <<>>)
          \o printSymbols(book, Tail(symbols))

printSortedBook(book) ==
  IF DOMAIN book = {} THEN << <<"Book empty!">> >>
  ELSE printSymbols(book, SymbolOrder)

\* ------------------------------------------------------------------------
\* History bookkeeping (not program state)

RECURSIVE FillSum(_, _)
FillSum(lines, oid) ==
  IF lines = <<>> THEN 0
  ELSE (IF Head(lines)[1] = "F" /\ Head(lines)[2] = oid THEN Head(lines)[4] ELSE 0)
       + FillSum(Tail(lines), oid)

Line(op, oid, symbol, side, qty, px) ==
  [op |-> op, oid |-> oid, symbol |-> symbol, side |-> side, qty |-> qty, px |-> px]

NoLine == Line("", 0, "", "", 0, 0)

\* ------------------------------------------------------------------------
\* The state machine: one step is one call of action(line) from main's loop

\* the lines action cannot read as "O", "X" or "P" with well-formed fields:
\*   "empty"    the empty line, _splitLine returns no item
\*   "letter"   the first character is none of O, X, P         ("Q 1")
\*   "number"   OID, QTY or PX is not a number                 ("X abc")
\*   "side"     SIDE is neither B nor S                        ("O 1 IBM Q 1 1.0")
\*   "missing"  a field is missing                             ("X", "O 1 IBM")
LineFaults == {"empty", "letter", "number", "side", "missing"}

\* the engine after construction, driven with input fields from the alphabet in
Start(in) ==
  /\ orderBook = EmptyMap
  /\ orderCache = EmptyMap
  /\ running = TRUE
  /\ out = <<>>
  /\ results = <<>>
  /\ last = NoLine
  /\ matches = <<>>
  /\ accepted = {}
  /\ cancelled = {}
  /\ origQty = [o \in in.oids |-> 0]
  /\ fillQty = [o \in in.oids |-> 0]
  /\ cxlQty = [o \in in.oids |-> 0]
  /\ arrival = [o \in in.oids |-> 0]
  /\ sameAsPrev = FALSE
  /\ inputs = in
  /\ cursor = 0
  /\ strayed = 0
  /\ issued = 0
  /\ nActions = 0

Init == Start([oids |-> Oids, symbols |-> {"IBM"}, qtys |-> Qtys, prices |-> Prices,
               limit |-> MaxActions, script |-> <<>>])

\* the same engine driven with orders of two symbols, each of one share
InitMulti == Start([oids |-> Oids, symbols |-> {"IBM", "MSFT"},
                    qtys |-> {Min(1, MaxQty)}, prices |-> Prices,
                    limit |-> MaxActions, script |-> <<>>])

\* the same engine driven with QTY fields inside and outside 1..65535: 0, 1,
\* 65536 and 65537
InitRaw == Start([oids |-> Oids, symbols |-> {"IBM"},
                  qtys |-> {0, Min(1, MaxQty), QuantityModulus, QuantityModulus + 1},
                  prices |-> Prices, limit |-> MaxActions, script |-> <<>>])

\* the example session of the program's header
ExampleSession ==
  << Line("O", 10000, "IBM", BUY, 10, 100),
     Line("O", 10001, "IBM", BUY, 10, 99),
     Line("O", 10002, "IBM", SELL, 5, 101),
     Line("O", 10003, "IBM", SELL, 5, 100),
     Line("O", 10004, "IBM", SELL, 5, 100),
     Line("X", 10002, "", "", 0, 0),
     Line("O", 10005, "IBM", BUY, 10, 99),
     Line("O", 10006, "IBM", BUY, 10, 100),
     Line("O", 10007, "IBM", SELL, 10, 101),
     Line("O", 10008, "IBM", SELL, 10, 102),
     Line("O", 10008, "IBM", SELL, 10, 102),
     Line("O", 10009, "IBM", SELL, 10, 102),
     Line("P", 0, "", "", 0, 0),
     Line("O", 10010, "IBM", BUY, 13, 102) >>

Field(lines, f) == { lines[k][f] : k \in { i \in 1..Len(lines) : lines[i].op = "O" } }

\* the same engine fed the lines of the example session in their order, from
\* which the driver strays MaxActions times at most
InitExample ==
  Start([oids |-> Field(ExampleSession, "oid"), symbols |-> Field(ExampleSession, "symbol"),
         qtys |-> Field(ExampleSession, "qty"), prices |-> Field(ExampleSession, "px"),
         limit |-> Len(ExampleSession) + MaxActions, script |-> ExampleSession])


\* Identifiers are only compared for equality, so the input introduces them
\* in increasing order: a line names an identifier used before or the next one.
\* With a script, a readable line is a later line of the script; the driver
\* leaves out lines of the script and puts in unreadable ones inputs.limit -
\* Len(inputs.script) times at most.
Step(line) ==
  /\ running
  /\ nActions < inputs.limit
  /\ IF inputs.script = <<>>
     THEN /\ line.oid <= issued + 1
          /\ issued' = IF line.oid > issued THEN line.oid ELSE issued
          /\ UNCHANGED <<cursor, strayed>>
     ELSE /\ issued' = issued
          /\ IF line.op \in LineFaults
             THEN /\ cursor' = cursor
                  /\ strayed' = strayed + 1
             ELSE \E k \in (cursor + 1)..Len(inputs.script) :
                    /\ line = inputs.script[k]
                    /\ cursor' = k
                    /\ strayed' = strayed + (k - cursor - 1)
          /\ strayed' <= inputs.limit - Len(inputs.script)
  /\ nActions' = nActions + 1
  /\ last' = line
  /\ sameAsPrev' = (line = last)
  /\ results' = <<>>          \* return results_t();
  /\ UNCHANGED inputs

\* the effects of a place that _placeOrder carried out with result r
Placed(oid, qty, r) ==
  /\ orderBook' = r.book
  /\ orderCache' = r.cache
  /\ out' = printFills(r.fills)
  /\ matches' = r.matches
  /\ accepted' = accepted \cup {oid}
  /\ origQty' = [origQty EXCEPT ![oid] = @ + qty]
  /\ fillQty' = [o \in DOMAIN fillQty |-> fillQty[o] + FillSum(out', o)]
  /\ arrival' = [arrival EXCEPT ![oid] = nActions + 1]
  /\ UNCHANGED <<running, cancelled, cxlQty>>

\* "O OID SYMBOL SIDE QTY PX"
Place(oid, symbol, side, qty, px) ==
  /\ Step(Line("O", oid, symbol, side, qty, px))
  /\ IF ~validateOrderId(orderCache, oid)
     THEN \* std::invalid_argument leaves action and main: std::terminate
          /\ running' = FALSE
          /\ out' = <<>>
          /\ matches' = <<>>
          /\ UNCHANGED <<orderBook, orderCache, accepted, cancelled, origQty,
                         fillQty, cxlQty, arrival>>
     ELSE Placed(oid, toQuantity(qty),
                 placeOrder(orderBook, orderCache,
                            Order(oid, symbol, side, toQuantity(qty), px)))

\* "X OID"
Cancel(oid, atEnd) ==
  LET r == cancelOrder(orderBook, orderCache, oid, atEnd)
  IN /\ Step(Line("X", oid, "", "", 0, 0))
     /\ matches' = <<>>
     /\ IF r.status = "terminated"
        THEN /\ running' = FALSE
             /\ out' = <<>>
             /\ UNCHANGED <<orderBook, orderCache, accepted, cancelled, origQty,
                            fillQty, cxlQty, arrival>>
        ELSE /\ orderBook' = r.book
             /\ out' = printCancel(oid, r.status = "cancelled")
             /\ cancelled' = IF r.status = "cancelled" THEN cancelled \cup {oid}
                                                       ELSE cancelled
             /\ cxlQty' = [cxlQty EXCEPT ![oid] = @ + r.qty]
             /\ UNCHANGED <<orderCache, running, accepted, origQty, fillQty, arrival>>

\* faulty variant: the snapshot takes the orders it prints out of their queues
SnapshotDraining ==
  /\ Step(Line("P", 0, "", "", 0, 0))
  /\ out' = printSortedBook(orderBook)
  /\ orderBook' = [sy \in DOMAIN orderBook |-> [bids |-> EmptyMap, asks |-> EmptyMap]]
  /\ matches' = <<>>
  /\ UNCHANGED <<orderCache, running, accepted, cancelled, origQty,
                 fillQty, cxlQty, arrival>>

\* "P"
Snapshot ==
  /\ Step(Line("P", 0, "", "", 0, 0))
  /\ out' = printSortedBook(orderBook)
  /\ matches' = <<>>
  /\ UNCHANGED <<orderBook, orderCache, running, accepted, cancelled, origQty,
                 fillQty, cxlQty, arrival>>

\* instructions[i] past the end of the vector is undefined behaviour: the
\* process is ended by the stray read, or what it reads is no command
OutOfRange == {"terminate", "ignored"}

\* what action does with a line it cannot read
readLine(fault, atRange) ==
  CASE fault = "letter" -> "ignored"      \* no branch of the if/else chain
    [] fault = "number" -> "terminate"    \* std::stoi / std::stod throw
    [] fault = "side"   -> "terminate"    \* Order's constructor throws
    [] OTHER            -> atRange        \* instructions[0], instructions[1]

Malformed(fault, atRange) ==
  /\ Step(Line(fault, 0, "", "", 0, 0))
  /\ running' = (readLine(fault, atRange) = "ignored")
  /\ out' = <<>>
  /\ matches' = <<>>
  /\ UNCHANGED <<orderBook, orderCache, accepted, cancelled, origQty,
                 fillQty, cxlQty, arrival>>

Next ==
  \/ \E oid \in inputs.oids, symbol \in inputs.symbols, side \in Side,
        qty \in inputs.qtys, px \in inputs.prices : Place(oid, symbol, side, qty, px)
  \/ \E oid \in inputs.oids, atEnd \in EraseAtEnd : Cancel(oid, atEnd)
  \/ Snapshot
  \/ \E fault \in LineFaults, atRange \in OutOfRange : Malformed(fault, atRange)

Spec == Init /\ [][Next]_vars

SpecMulti == InitMulti /\ [][Next]_vars

SpecExample == InitExample /\ [][Next]_vars

SpecRaw == InitRaw /\ [][Next]_vars

\* ------------------------------------------------------------------------
\* Reading the book

Levels(book, symbol, side) ==
  IF side = BUY THEN book[symbol].bids ELSE book[symbol].asks

\* every queue slot of the book: where it is and the order it holds
BookEntries(book) ==
  UNION { UNION { UNION {
    { [symbol |-> sy, side |-> sd, px |-> p, pos |-> i,
       order |-> Levels(book, sy, sd)[p][i]] :
        i \in 1..Len(Levels(book, sy, sd)[p]) } :
      p \in DOMAIN Levels(book, sy, sd) } :
    sd \in Side } :
  sy \in DOMAIN book }

RECURSIVE SumQty(_)
SumQty(S) ==
  IF S = {} THEN 0
  ELSE LET e == CHOOSE x \in S : TRUE IN e.order.qty + SumQty(S \ {e})

\* remaining open quantity on the book under an identifier
OpenQty(book, oid) == SumQty({ e \in BookEntries(book) : e.order.oid = oid })

Resting(book, oid) == \E e \in BookEntries(book) : e.order.oid = oid

IsPlace(line)  == line.op = "O"
IsCancel(line) == line.op = "X"

\* ------------------------------------------------------------------------
\* C1  Fill symmetry: every match made while placing an order emits exactly
\* two F lines, the first with the incoming order's identifier, the second
\* with the resting order's, both with the same symbol, quantity and price.
C1_FillSymmetry ==
  (IsPlace(last) /\ running) =>
    /\ Len(out) = 2 * Len(matches)
    /\ \A k \in 1..Len(matches) :
         /\ out[2 * k - 1][1] = "F" /\ out[2 * k][1] = "F"
         /\ out[2 * k - 1][2] = matches[k].aggressor
         /\ out[2 * k][2] = matches[k].resting
         /\ out[2 * k - 1][3] = out[2 * k][3]
         /\ out[2 * k - 1][4] = out[2 * k][4]
         /\ out[2 * k - 1][5] = out[2 * k][5]

\* C2  Conservation: for every identifier, the quantity accepted under it is
\* the sum of its F lines plus its open quantity on the book plus the open
\* quantity its cancel took off the book; in particular its F lines never add
\* up to more than its original quantity.
C2_Conservation ==
  \A o \in Oids :
    /\ origQty[o] = fillQty[o] + OpenQty(orderBook, o) + cxlQty[o]
    /\ fillQty[o] <= origQty[o]

\* ------------------------------------------------------------------------
MinOf(S) == CHOOSE x \in S : \A y \in S : x <= y
MaxOf(S) == CHOOSE x \in S : \A y \in S : x >= y

\* C3  No cross: for every symbol whose bid side and ask side both hold a
\* price level, the lowest ask price is strictly greater than the highest
\* bid price.
C3_NoCross ==
  \A sy \in DOMAIN orderBook :
    (DOMAIN orderBook[sy].bids # {} /\ DOMAIN orderBook[sy].asks # {}) =>
      MinOf(DOMAIN orderBook[sy].asks) > MaxOf(DOMAIN orderBook[sy].bids)

\* a place crossed the book, rested the remainder of the incoming order and
\* left both sides of its symbol non-empty
C3_Witness ==
  /\ IsPlace(last) /\ running /\ matches # <<>>
  /\ Resting(orderBook, last.oid)
  /\ DOMAIN orderBook[last.symbol].bids # {}
  /\ DOMAIN orderBook[last.symbol].asks # {}

\* ------------------------------------------------------------------------
\* on the resting side sd, price p has priority over price q
BetterPx(sd, p, q) == IF sd = SELL THEN p < q ELSE p > q

\* the orders a match could have gone to instead: those of the resting side
\* that the fill loop still sees with open quantity when it makes match m
Competitors(m) ==
  UNION { { [px |-> p, order |-> m.view[p][i]] :
              i \in { j \in 1..Len(m.view[p]) :
                        m.view[p][j].qty > 0 /\ m.view[p][j].oid # m.resting } } :
          p \in DOMAIN m.view }

RECURSIVE RestingIds(_)
RestingIds(ms) ==
  IF ms = <<>> THEN <<>> ELSE <<Head(ms).resting>> \o RestingIds(Tail(ms))

RECURSIVE PassiveFillIds(_, _)
PassiveFillIds(lines, aggressor) ==
  IF lines = <<>> THEN <<>>
  ELSE (IF Head(lines)[1] = "F" /\ Head(lines)[2] # aggressor
        THEN <<Head(lines)[2]>> ELSE <<>>)
       \o PassiveFillIds(Tail(lines), aggressor)

\* C4  Price-time priority: when an incoming order is matched with a resting
\* order R, no other order of R's side still open to the match has a strictly
\* better price than R, or R's price and an earlier arrival; the fills of one
\* place are emitted best price first and, within a level, earliest first.
C4_PriceTimePriority ==
  (IsPlace(last) /\ running) =>
    /\ \A k \in 1..Len(matches) :
         \A c \in Competitors(matches[k]) :
           /\ ~BetterPx(matches[k].side, c.px, matches[k].px)
           /\ ~(c.px = matches[k].px
                  /\ arrival[c.order.oid] < arrival[matches[k].resting])
    /\ \A k \in 1..Len(matches) : \A l \in (k + 1)..Len(matches) :
         /\ ~BetterPx(matches[k].side, matches[l].px, matches[k].px)
         /\ (matches[l].px = matches[k].px =>
               arrival[matches[k].resting] < arrival[matches[l].resting])
    /\ PassiveFillIds(out, last.oid) = RestingIds(matches)

\* a place was matched with two resting orders, the second of them still
\* open when the first match was made
C4_Witness ==
  /\ IsPlace(last) /\ running
  /\ Len(matches) >= 2
  /\ Competitors(matches[1]) # {}

\* ------------------------------------------------------------------------
RECURSIVE MatchedQty(_, _)
MatchedQty(ms, oid) ==
  IF ms = <<>> THEN 0
  ELSE (IF Head(ms).resting = oid THEN Head(ms).qty ELSE 0) + MatchedQty(Tail(ms), oid)

\* the book without the queue slot e; a level left empty is removed
WithoutEntry(book, e) ==
  LET levels == Levels(book, e.symbol, e.side)
      queue  == RemoveAt(levels[e.px], e.pos)
      after  == IF queue = <<>> THEN MapErase(levels, e.px)
                                ELSE [levels EXCEPT ![e.px] = queue]
  IN IF e.side = BUY THEN [book EXCEPT ![e.symbol].bids = after]
                     ELSE [book EXCEPT ![e.symbol].asks = after]

DuplicateLine(oid) == <<"E", oid, "Duplicate order id">>
NotOnBookLine(oid) == <<"E", oid, "Order ID not on book">>
CancelLine(oid)    == <<"X", oid>>

\* C5  A resting order stays on the book until it is cancelled or fully
\* filled: a place removes no resting order whose open quantity it did not
\* fill to 0, and changes no resting order that took part in none of its
\* matches.
C5_PlaceKeepsOpenOrders ==
  [][ (IsPlace(last') /\ running') =>
        \A e \in BookEntries(orderBook) :
          e.order.qty > 0 =>
            /\ ~Resting(orderBook', e.order.oid) =>
                 MatchedQty(matches', e.order.oid) >= e.order.qty
            /\ MatchedQty(matches', e.order.oid) = 0 =>
                 \E f \in BookEntries(orderBook') :
                   /\ f.order = e.order /\ f.symbol = e.symbol
                   /\ f.side = e.side /\ f.px = e.px ]_vars

\* C6  A place whose identifier is already in the index produces the one line
\* "E <oid> Duplicate order id", changes neither the books nor the index, and
\* the engine goes on to the next action.
C6_DuplicateRejected ==
  [][ (IsPlace(last') /\ last'.oid \in DOMAIN orderCache) =>
        /\ out' = << DuplicateLine(last'.oid) >>
        /\ orderBook' = orderBook
        /\ orderCache' = orderCache
        /\ running' ]_vars

\* C7  No two resting orders share an identifier, and an identifier a place
\* once accepted is never accepted again, whether its order was cancelled,
\* filled while resting, or filled on arrival.
C7_IdentifierUniqueness ==
  [][ /\ \A e, f \in BookEntries(orderBook') : e.order.oid = f.order.oid => e = f
      /\ (IsPlace(last') /\ last'.oid \in accepted) =>
           /\ orderBook' = orderBook
           /\ orderCache' = orderCache
           /\ origQty' = origQty
           /\ matches' = <<>> ]_vars

\* C8  A cancel of a resting identifier removes exactly that order from its
\* queue, removes the level if it became empty, removes the identifier from
\* the index, leaves every other order in place and emits "X <oid>".
C8_CancelResting ==
  [][ (IsCancel(last') /\ Resting(orderBook, last'.oid)) =>
        \A e \in BookEntries(orderBook) :
          e.order.oid = last'.oid =>
            /\ out' = << CancelLine(last'.oid) >>
            /\ orderBook' = WithoutEntry(orderBook, e)
            /\ last'.oid \notin DOMAIN orderCache' ]_vars

\* C9  A cancel of an identifier no place ever accepted emits the one line
\* "E <oid> Order ID not on book" and leaves the books and the index as they
\* were; issued twice in a row it produces the same line twice.
C9_CancelUnknown ==
  [][ (IsCancel(last') /\ last'.oid \notin accepted) =>
        /\ out' = << NotOnBookLine(last'.oid) >>
        /\ orderBook' = orderBook
        /\ orderCache' = orderCache
        /\ running'
        /\ (last = last' => out' = out) ]_vars

\* the same cancel of a never accepted identifier was issued twice in a row
C9_Witness ==
  /\ IsCancel(last) /\ last.oid \notin accepted /\ sameAsPrev
  /\ out = << NotOnBookLine(last.oid) >>
  /\ DOMAIN orderCache # {}

\* C10  A cancel of an identifier that a cancel already acknowledged emits
\* "E <oid> Order ID not on book", not a second "X <oid>", and leaves the
\* books unchanged.
C10_CancelAfterCancel ==
  [][ (IsCancel(last') /\ last'.oid \in cancelled) =>
        /\ out' = << NotOnBookLine(last'.oid) >>
        /\ orderBook' = orderBook
        /\ running' ]_vars

\* ------------------------------------------------------------------------
\* the identifier rested on the book, was not cancelled, and the F lines
\* issued for it since add up to the quantity it rested with
FilledWhileResting(oid) ==
  /\ oid \in DOMAIN orderCache
  /\ oid \notin cancelled
  /\ fillQty[oid] >= orderCache[oid].qty

\* C11  A cancel of an identifier whose order rested and has since been fully
\* filled behaves like a cancel of a never accepted identifier: it emits the
\* one line "E <oid> Order ID not on book" and leaves the books unchanged.
C11_CancelFilled ==
  [][ (IsCancel(last') /\ FilledWhileResting(last'.oid)) =>
        /\ out' = << NotOnBookLine(last'.oid) >>
        /\ orderBook' = orderBook
        /\ running' ]_vars

\* ------------------------------------------------------------------------
\* the lines the engine has to reject: those it cannot read and a place under
\* an identifier that was accepted before
Rejected(line) ==
  \/ line.op \in LineFaults
  \/ IsPlace(line) /\ line.oid \in accepted

\* C12  action is total: whatever the line, the call returns and the engine
\* goes on to the next action; a line that is empty, has an unknown action
\* letter, a missing or non-numeric field, an invalid side or a duplicate
\* identifier produces exactly one E line and changes neither the books nor
\* the index.
C12_ActionTotal ==
  [][ /\ running'
      /\ Rejected(last') =>
           /\ Len(out') = 1 /\ out'[1][1] = "E"
           /\ orderBook' = orderBook
           /\ orderCache' = orderCache ]_vars

\* ------------------------------------------------------------------------
\* the result lines (F, X, P, E) among the lines written by an action
RECURSIVE ResultLines(_)
ResultLines(lines) ==
  IF lines = <<>> THEN <<>>
  ELSE (IF Head(lines)[1] \in {"F", "X", "P", "E"} THEN <<Head(lines)>> ELSE <<>>)
       \o ResultLines(Tail(lines))

\* C13  The sequence action(line) returns holds all result lines of that
\* action, in the order they were produced: the size of the returned sequence
\* is the number of F, X, P and E lines of the action.
C13_ResultsReturned ==
  running =>
    /\ results = ResultLines(out)
    /\ Len(results) = Len(ResultLines(out))

\* ------------------------------------------------------------------------
\* C14  Orders of different symbols never cross: whatever the prices, the F
\* lines of a place for symbol S carry symbol S and name the incoming order or
\* an order that rested in the book of S, and the book of every other symbol
\* is left as it was.
C14_SymbolsIsolated ==
  [][ (IsPlace(last') /\ running') =>
        /\ \A k \in 1..Len(out') :
             out'[k][1] = "F" =>
               /\ out'[k][3] = last'.symbol
               /\ \/ out'[k][2] = last'.oid
                  \/ \E e \in BookEntries(orderBook) :
                       e.order.oid = out'[k][2] /\ e.symbol = last'.symbol
        /\ \A sy \in DOMAIN orderBook \ {last'.symbol} :
             sy \in DOMAIN orderBook' /\ orderBook'[sy] = orderBook[sy] ]_vars

\* a place was matched in the book of its symbol while an order of another
\* symbol rested at a price it would have crossed
C14_Witness ==
  /\ IsPlace(last) /\ running /\ matches # <<>>
  /\ \E e \in BookEntries(orderBook) :
       /\ e.symbol # last.symbol
       /\ e.side # last.side
       /\ IF last.side = BUY THEN e.px <= last.px ELSE e.px >= last.px

\* ------------------------------------------------------------------------
IsSnapshot(line) == line.op = "P"

\* the P lines of the last action, in the order they were written
BookLines == SelectSeq(out, LAMBDA l : l[1] = "P")

\* fields of a P line: symbol, side and the whole units of the printed price
LineSymbol(l) == l[3]
LineSide(l)   == l[4]
LinePx(l)     == l[6][1]

\* place of a symbol in the lexicographic order of the symbols
SymbolRank(symbol) ==
  CHOOSE i \in 1..Len(SymbolOrder) : SymbolOrder[i] = symbol

\* C15  A snapshot lists the symbols in ascending lexicographic order and,
\* for each symbol, all asks from the highest price to the lowest and then all
\* bids from the highest price to the lowest: within a symbol the printed
\* prices never increase and every ask is printed above every bid.
C15_SnapshotOrder ==
  (IsSnapshot(last) /\ running) =>
    \A i \in 1..Len(BookLines) : \A j \in (i + 1)..Len(BookLines) :
      /\ SymbolRank(LineSymbol(BookLines[i])) <= SymbolRank(LineSymbol(BookLines[j]))
      /\ LineSymbol(BookLines[i]) = LineSymbol(BookLines[j]) =>
           /\ ~(LineSide(BookLines[i]) = BUY /\ LineSide(BookLines[j]) = SELL)
           /\ LinePx(BookLines[i]) >= LinePx(BookLines[j])
           /\ LineSide(BookLines[i]) # LineSide(BookLines[j]) =>
                LinePx(BookLines[i]) > LinePx(BookLines[j])

\* a snapshot of a book with two symbols: the symbol created later comes
\* first in the order of the symbols, and its bid is printed above the ask of
\* the other symbol
C15_Witness ==
  /\ IsSnapshot(last) /\ running
  /\ \E i, j \in 1..Len(BookLines) :
       /\ i < j
       /\ LineSymbol(BookLines[i]) # LineSymbol(BookLines[j])
       /\ arrival[BookLines[i][2]] > arrival[BookLines[j][2]]
       /\ LineSide(BookLines[i]) = BUY /\ LineSide(BookLines[j]) = SELL

\* ------------------------------------------------------------------------
\* C16  Within one price level a snapshot emits the orders in reverse arrival
\* order: of two orders of one symbol, side and price, the one that arrived
\* later is printed first.
C16_ReverseArrival ==
  (IsSnapshot(last) /\ running) =>
    \A i \in 1..Len(BookLines) : \A j \in (i + 1)..Len(BookLines) :
      ( /\ LineSymbol(BookLines[i]) = LineSymbol(BookLines[j])
        /\ LineSide(BookLines[i]) = LineSide(BookLines[j])
        /\ LinePx(BookLines[i]) = LinePx(BookLines[j]) ) =>
        arrival[BookLines[i][2]] > arrival[BookLines[j][2]]

\* ------------------------------------------------------------------------
\* a price as the header prints it: five digits after the decimal point
DocumentedPx(px) == <<px, <<0, 0, 0, 0, 0>>>>

DocumentedF(oid, qty, px) == <<"F", oid, "IBM", qty, DocumentedPx(px)>>
DocumentedP(oid, side, qty, px) == <<"P", oid, "IBM", side, qty, DocumentedPx(px)>>

\* the result lines the header documents for the lines of ExampleSession
ExampleResults ==
  << <<>>, <<>>, <<>>,
     << DocumentedF(10003, 5, 100), DocumentedF(10000, 5, 100) >>,
     << DocumentedF(10004, 5, 100), DocumentedF(10000, 5, 100) >>,
     << CancelLine(10002) >>,
     <<>>, <<>>, <<>>, <<>>,
     << DuplicateLine(10008) >>,
     <<>>,
     << DocumentedP(10009, SELL, 10, 102), DocumentedP(10008, SELL, 10, 102),
        DocumentedP(10007, SELL, 10, 101), DocumentedP(10006, BUY, 10, 100),
        DocumentedP(10001, BUY, 10, 99), DocumentedP(10005, BUY, 10, 99) >>,
     << DocumentedF(10010, 10, 101), DocumentedF(10007, 10, 101),
        DocumentedF(10010, 3, 102), DocumentedF(10008, 3, 102) >> >>

\* C17  Fed to an engine that was never used, the fourteen lines of the
\* example session produce exactly the documented result lines: after each
\* line of the session the engine is running and has emitted the lines the
\* header lists for it.
C17_ExampleSession ==
  (inputs.script = ExampleSession /\ strayed = 0 /\ cursor > 0) =>
    /\ running
    /\ out = ExampleResults[cursor]

\* ------------------------------------------------------------------------
\* C18  A snapshot changes neither the books nor the index, and a snapshot
\* that directly follows a snapshot produces the same output.
C18_SnapshotReadOnly ==
  [][ IsSnapshot(last') =>
        /\ orderBook' = orderBook
        /\ orderCache' = orderCache
        /\ running'
        /\ IsSnapshot(last) => out' = out ]_vars

\* two snapshots in a row of a book that holds an order
C18_Witness ==
  /\ IsSnapshot(last) /\ sameAsPrev /\ running
  /\ BookLines # <<>>
  /\ BookEntries(orderBook) # {}

\* ------------------------------------------------------------------------
\* the lines of the last action that show the queue slot e of the book
LinesOf(e) ==
  { k \in 1..Len(out) :
      /\ out[k][1] = "P"
      /\ out[k][2] = e.order.oid
      /\ LineSymbol(out[k]) = e.symbol
      /\ LineSide(out[k]) = e.side
      /\ out[k][5] = e.order.qty
      /\ LinePx(out[k]) = e.px }

\* C19  A snapshot emits exactly one P line for every resting order, with its
\* identifier, symbol, side, open quantity and price, and no other line; on a
\* book without resting orders, that of a never used engine included, it
\* emits nothing.
C19_SnapshotContent ==
  (IsSnapshot(last) /\ running) =>
    /\ \A e \in BookEntries(orderBook) : Cardinality(LinesOf(e)) = 1
    /\ Len(out) = Cardinality(BookEntries(orderBook))

\* ------------------------------------------------------------------------
\* C20  Every price of an F line or a P line is printed with exactly five
\* digits after the decimal point.
C20_FiveDigits ==
  \A k \in 1..Len(out) :
    /\ out[k][1] = "F" => Len(out[k][5][2]) = 5
    /\ out[k][1] = "P" => Len(out[k][6][2]) = 5

\* ------------------------------------------------------------------------
\* C21  After every completed action every order held in a price-level queue
\* has open quantity greater than 0: an order a match filled to 0 is not left
\* on the book.
C21_OpenQuantityPositive ==
  running => \A e \in BookEntries(orderBook) : e.order.qty > 0

\* ------------------------------------------------------------------------
\* C22  After every completed action, whatever it was, no side book holds a
\* price level whose queue is empty.
C22_NoEmptyLevel ==
  running =>
    \A sy \in DOMAIN orderBook : \A sd \in Side :
      \A p \in DOMAIN Levels(orderBook, sy, sd) :
        Levels(orderBook, sy, sd)[p] # <<>>

\* a sell took the last order out of a bid level, and the level is gone
C22_Witness ==
  /\ IsPlace(last) /\ running /\ last.side = SELL
  /\ matches # <<>>
  /\ matches[1].px \notin DOMAIN orderBook[last.symbol].bids

\* ------------------------------------------------------------------------
\* the orders with identifier oid in the queue the index entry c points to
Located(book, c, oid) ==
  { e \in BookEntries(book) :
      /\ e.symbol = c.symbol /\ e.side = c.side /\ e.px = c.px
      /\ e.order.oid = oid }

\* C23  After every completed action every identifier in the index locates,
\* through the symbol, side and price recorded for it, a queue that holds
\* exactly one order with that identifier; the identifiers of cancelled and
\* of fully filled orders are not in the index.
C23_IndexLocatesOrder ==
  running =>
    \A oid \in DOMAIN orderCache :
      /\ Cardinality(Located(orderBook, orderCache[oid], oid)) = 1
      /\ oid \notin cancelled
      /\ ~FilledWhileResting(oid)

\* ------------------------------------------------------------------------
\* C24  After every completed action every order resting in a price-level
\* queue has an index entry under its identifier, and the symbol, side and
\* price of that entry are those of the queue the order rests in.
C24_RestingOrderIndexed ==
  running =>
    \A e \in BookEntries(orderBook) :
      /\ e.order.oid \in DOMAIN orderCache
      /\ orderCache[e.order.oid].symbol = e.symbol
      /\ orderCache[e.order.oid].side = e.side
      /\ orderCache[e.order.oid].px = e.px

\* ------------------------------------------------------------------------
\* the matches ms fill the order in queue slot e to 0
FilledToZero(ms, e) == MatchedQty(ms, e.order.oid) >= e.order.qty

\* C25  When a match of a place brings a resting order's open quantity to 0,
\* that order is the one removed from its queue and from the index; the
\* orders a place removes from a level are exactly those of the level it
\* filled to 0, and they are taken from the front of the queue.
C25_FilledOrderRemoved ==
  [][ (IsPlace(last') /\ running') =>
        \A e \in BookEntries(orderBook) :
          e.order.qty > 0 =>
            /\ FilledToZero(matches', e) =>
                 /\ ~Resting(orderBook', e.order.oid)
                 /\ e.order.oid \notin DOMAIN orderCache'
            /\ ~FilledToZero(matches', e) => Resting(orderBook', e.order.oid)
            /\ ~Resting(orderBook', e.order.oid) =>
                 \A f \in BookEntries(orderBook) :
                   (f.symbol = e.symbol /\ f.side = e.side /\ f.px = e.px
                      /\ f.pos < e.pos) => ~Resting(orderBook', f.order.oid) ]_vars

\* ------------------------------------------------------------------------
\* C26  After a place that fills a resting order R only partially, with
\* quantity q, R is at the front of its queue in the book and its open
\* quantity is its previous open quantity minus q, for a BUY matched with
\* asks as for a SELL matched with bids.
C26_PartialFillStays ==
  [][ (IsPlace(last') /\ running') =>
        \A e \in BookEntries(orderBook) :
          ( /\ MatchedQty(matches', e.order.oid) > 0
            /\ MatchedQty(matches', e.order.oid) < e.order.qty ) =>
            \E f \in BookEntries(orderBook') :
              /\ f.order.oid = e.order.oid
              /\ f.symbol = e.symbol /\ f.side = e.side /\ f.px = e.px
              /\ f.pos = 1
              /\ f.order.qty = e.order.qty - MatchedQty(matches', e.order.oid) ]_vars

\* ------------------------------------------------------------------------
\* what is open of the resting order oid: the quantity it rested with less
\* the F lines issued for it since
OpenOfResting(oid) == orderCache[oid].qty - fillQty[oid]

\* C27  Every emitted fill has a quantity greater than 0 that is the smaller
\* of the resting order's and the incoming order's open quantity at the
\* moment of the match, and the price of the resting order, not that of the
\* incoming order.
C27_FillQuantityAndPrice ==
  [][ (IsPlace(last') /\ running') =>
        /\ Len(out') = Len(matches')
        /\ \A k \in 1..Len(matches') :
             /\ out'[k][1] = "F"
             /\ out'[k][2] = matches'[k].resting
             /\ out'[k][4] > 0
             /\ out'[k][4] = Min(OpenOfResting(matches'[k].resting),
                                 matches'[k].aggressorOpen)
             /\ out'[k][5][1] = orderCache[matches'[k].resting].px ]_vars

\* ------------------------------------------------------------------------
RECURSIVE TotalQty(_)
TotalQty(ms) == IF ms = <<>> THEN 0 ELSE Head(ms).qty + TotalQty(Tail(ms))

\* what is open of the incoming order of line after the matches ms
Remainder(line, ms) == toQuantity(line.qty) - TotalQty(ms)

\* the price p of the opposite side is marketable for the incoming line
Marketable(line, p) == IF line.side = BUY THEN p <= line.px ELSE p >= line.px

\* the order of line is the last of the queue of its symbol, side and price,
\* with open quantity qty
AtBack(book, line, qty) ==
  /\ line.symbol \in DOMAIN book
  /\ line.px \in DOMAIN Levels(book, line.symbol, line.side)
  /\ LET queue == Levels(book, line.symbol, line.side)[line.px]
     IN /\ queue # <<>>
        /\ queue[Len(queue)].oid = line.oid
        /\ queue[Len(queue)].qty = qty

\* C28  After the cross phase of a place the incoming order is appended at
\* the back of the queue of its symbol, side and price (a new level if there
\* was none) and recorded in the index if and only if its open quantity is
\* still greater than 0; with open quantity left, no marketable level of the
\* opposite side remains; an incoming order filled to 0 neither rests nor is
\* recorded.
C28_RestRemainder ==
  [][ (IsPlace(last') /\ running') =>
        IF Remainder(last', matches') > 0
        THEN /\ AtBack(orderBook', last', Remainder(last', matches'))
             /\ last'.oid \in DOMAIN orderCache'
             /\ orderCache'[last'.oid].symbol = last'.symbol
             /\ orderCache'[last'.oid].side = last'.side
             /\ orderCache'[last'.oid].px = last'.px
             /\ \A p \in DOMAIN Levels(orderBook', last'.symbol,
                                       IF last'.side = BUY THEN SELL ELSE BUY) :
                  ~Marketable(last', p)
        ELSE /\ ~Resting(orderBook', last'.oid)
             /\ last'.oid \notin DOMAIN orderCache' ]_vars

\* ------------------------------------------------------------------------
\* queue slot e is before queue slot f in one queue
Before(e, f) ==
  /\ e.symbol = f.symbol /\ e.side = f.side /\ e.px = f.px
  /\ e.pos < f.pos

ValidQty == 1..(QuantityModulus - 1)

\* C30  A place whose QTY field is outside 1..65535 is rejected with one E
\* line and leaves the books and the index unchanged; no quantity is reduced
\* modulo 2^16, so the order an accepted place puts on the book has open
\* quantity greater than 0 and at most the QTY of its line.
C30_QuantityRange ==
  [][ IsPlace(last') =>
        /\ last'.qty \notin ValidQty =>
             /\ Len(out') = 1 /\ out'[1][1] = "E" /\ out'[1][2] = last'.oid
             /\ orderBook' = orderBook
             /\ orderCache' = orderCache
             /\ running'
        /\ \A e \in BookEntries(orderBook') \ BookEntries(orderBook) :
             e.order.oid = last'.oid =>
               e.order.qty > 0 /\ e.order.qty <= last'.qty ]_vars

\* ------------------------------------------------------------------------
\* The mirror image of an order book: sides swapped, price order reversed
MirrorSide(side) == IF side = BUY THEN SELL ELSE BUY
MirrorPx(px) == MaxPx + 1 - px

MirrorOrder(order) ==
  [order EXCEPT !.side = MirrorSide(@), !.px = MirrorPx(@)]

MirrorQueue(queue) == [i \in 1..Len(queue) |-> MirrorOrder(queue[i])]

MirrorLevels(pxLevels) ==
  [p \in { MirrorPx(q) : q \in DOMAIN pxLevels } |-> MirrorQueue(pxLevels[MirrorPx(p)])]

MirrorBook(book) ==
  [sy \in DOMAIN book |-> [bids |-> MirrorLevels(book[sy].asks),
                           asks |-> MirrorLevels(book[sy].bids)]]

MirrorCache(cache) == [oid \in DOMAIN cache |-> MirrorOrder(cache[oid])]

MirrorFills(fills) == [k \in 1..Len(fills) |-> [fills[k] EXCEPT !.px = MirrorPx(@)]]

\* the orders a place could bring to the book as it is
Incoming ==
  { Order(oid, symbol, side, toQuantity(qty), px) :
      oid \in { o \in inputs.oids : validateOrderId(orderCache, o) },
      symbol \in inputs.symbols, side \in Side,
      qty \in inputs.qtys, px \in inputs.prices }

\* C31  Placing a BUY against resting asks and placing a SELL against resting
\* bids are mirror images: on the mirrored book the mirrored incoming order
\* emits the same fills, at the mirrored prices, and leaves the mirrored book
\* and index, that is the same resting orders with the same open quantities
\* in the same queue order.
C31_MirrorSymmetry ==
  running =>
    \A order \in Incoming :
      /\ placeOrder(MirrorBook(orderBook), MirrorCache(orderCache),
                    MirrorOrder(order)).fills
           = MirrorFills(placeOrder(orderBook, orderCache, order).fills)
      /\ placeOrder(MirrorBook(orderBook), MirrorCache(orderCache),
                    MirrorOrder(order)).book
           = MirrorBook(placeOrder(orderBook, orderCache, order).book)
      /\ placeOrder(MirrorBook(orderBook), MirrorCache(orderCache),
                    MirrorOrder(order)).cache
           = MirrorCache(placeOrder(orderBook, orderCache, order).cache)

====
